---- MODULE Spec2Model ----
(***************************************************************************)
(* Mattermost Channel Export (main.py): one export run as a state machine. *)
(* The remote server is the environment: what it holds is fixed when the   *)
(* run starts, and the status each call ends with is drawn when the call   *)
(* is made.  Posts carry the fields main.py branches on (id, root_id,      *)
(* create_at, user_id, file_ids, delete_at); message, edit_at and          *)
(* parent_id are only copied through by add_post and are left out.         *)
(***************************************************************************)
EXTENDS Integers, Sequences, FiniteSets, TLC

VARIABLES
    srv_posts,        \* server: post id -> raw post
    srv_reactions,    \* server: post id -> flat reaction list of the post
    srv_unknown_users,\* server: the user ids GET /users/{id} answers 404 for
    listing,          \* server: the channel's post ids in the order the pages return them
    pc,               \* position of main()
    error,            \* what ended the run ("" while it runs)
    is_system_admin,  \* global is_system_admin
    user_cache,       \* global user_cache: user id -> user record
    user_requests,    \* history: user id -> GET /users/{id} requests sent
    user_fetches,     \* history: user id -> GET /users/{id} requests answered 2xx
    page,             \* get_posts: page
    page_log,         \* history: the page requests sent, [page, per_page, status, posts]
    gp_all_posts,     \* get_posts: all_posts (the posts of the pages, in order)
    post_dict,        \* get_posts: post_dict, in insertion order
    bf,               \* get_posts: position of the thread loop in gp_all_posts
    thread_log,       \* history: the fetch_thread_posts calls answered, {[root_id, posts]}
    sorted_posts,     \* get_posts' return value
    fi,               \* main: position of the add_post loop in sorted_posts
    all_posts,        \* main: all_posts, in insertion order, <<[key, val]>>
    file_log,         \* history: per add_post call, the file lookups made and their statuses
    FETCH_ALL,        \* configuration, read when main reaches the filter
    START_DATE,
    END_DATE,
    posts_data,       \* main: posts_data handed to the renderers
    html,             \* output/<channel>/posts.html
    csv,              \* output/<channel>/posts.csv
    json,             \* output/<channel>/posts.json
    attempts,         \* transport: HTTP requests sent for the call in flight
    retry_total,      \* transport: Retry.total, the retries the call has left
    responses,        \* transport: the responses answered so far, in order
    outcome           \* transport: how session.get + raise_for_status ended

vars == <<srv_posts, srv_reactions, srv_unknown_users, listing, pc, error, is_system_admin, user_cache,
          user_requests, user_fetches, page, page_log, gp_all_posts, post_dict, bf,
          thread_log, sorted_posts, fi, all_posts, file_log, FETCH_ALL, START_DATE,
          END_DATE, posts_data, html, csv, json, attempts, retry_total, responses,
          outcome>>

run_vars == <<pc, error, is_system_admin, user_cache, user_requests, user_fetches, page,
              page_log, gp_all_posts, post_dict, bf, thread_log, sorted_posts, fi,
              all_posts, file_log, FETCH_ALL, START_DATE, END_DATE, posts_data, html, csv,
              json>>

srv_vars == <<srv_posts, srv_reactions, srv_unknown_users, listing>>

transport_vars == <<attempts, retry_total, responses, outcome>>

(***************************************************************************)
(* Bounds of the model.                                                    *)
(***************************************************************************)
\* create_at ranges over 1..MaxTime
MaxTime == 3
\* ticks per calendar day (86400000 ms in the source's arithmetic)
DayLen == 2
\* START_DATE / END_DATE range over days 1..MaxDay since the epoch
MaxDay == 1
\* page size requested by get_posts (the source asks for 100)
per_page == 2
\* longest file_ids list
MaxFiles == 3
\* longest flat reaction list
MaxReactions == 3
\* most posts the pages of the channel list when a post may be listed again
MaxListing == 5

(***************************************************************************)
(* The server's universe.                                                  *)
(***************************************************************************)
PostIds == {"A", "B", "C"}

\* A is a thread root and B a reply to it; C is a reply to A or a root of its own.
RootIds == {"", "A"}

AuthorOf(id) == IF id = "B" THEN "u2" ELSE "u1"

UserIds == {"u1", "u2"}

Username(uid) == IF uid = "u1" THEN "alice" ELSE "bob"

\* what GET /users/{id} answers with
UserRecord(uid) == [id |-> uid, username |-> Username(uid)]

FileIds == {"f1", "f2", "f3"}

Emojis == {"+1", "smile"}

Times == 1..MaxTime

\* START_DATE / END_DATE unset: os.getenv gives None, and so does the conversion
NoDate == -1

Dates == 1..MaxDay

\* Final status of one remote call as main.py sees it: 200, an error status that
\* raise_for_status turns into HTTPError (403, 404), or a status of the retry
\* list still answered when the retries are used up (500, raised by session.get).
Statuses == {200, 403, 404, 500}

RawPost(id, root_id, t, files, del) ==
    [id |-> id, root_id |-> root_id, create_at |-> t, user_id |-> AuthorOf(id),
     file_ids |-> files, delete_at |-> del]

\* sequences of distinct elements of S, at most n long
RECURSIVE DistinctSeqs(_, _)
DistinctSeqs(S, n) ==
    IF n = 0 \/ S = {} THEN {<<>>}
    ELSE {<<>>} \cup UNION {{<<x>> \o s : s \in DistinctSeqs(S \ {x}, n - 1)} : x \in S}

\* sequences over S, at most n long
RECURSIVE SeqsUpTo(_, _)
SeqsUpTo(S, n) ==
    IF n = 0 THEN {<<>>}
    ELSE {<<>>} \cup {<<x>> \o s : x \in S, s \in SeqsUpTo(S, n - 1)}

Range(s) == {s[i] : i \in 1..Len(s)}

(***************************************************************************)
(* Python dicts keep insertion order: a dict is a sequence of entries with *)
(* distinct keys, and assigning to a present key keeps its place.          *)
(***************************************************************************)
PostKeys(d) == {d[i].id : i \in 1..Len(d)}

PostIndex(d, k) == CHOOSE i \in 1..Len(d) : d[i].id = k

\* post_dict[p["id"]] = p
PostDictSet(d, p) ==
    IF p.id \in PostKeys(d) THEN [d EXCEPT ![PostIndex(d, p.id)] = p] ELSE Append(d, p)

\* post_dict.update(posts), and the loop over thread_posts
RECURSIVE PostDictUpdate(_, _)
PostDictUpdate(d, posts) ==
    IF posts = <<>> THEN d ELSE PostDictUpdate(PostDictSet(d, Head(posts)), Tail(posts))

TreeKeys(t) == {t[i].key : i \in 1..Len(t)}

TreeIndex(t, k) == CHOOSE i \in 1..Len(t) : t[i].key = k

TreeGet(t, k) == t[TreeIndex(t, k)].val

\* list(all_posts.values())
TreeValues(t) == [i \in 1..Len(t) |-> t[i].val]

\* an entry that holds a post's own fields, not only "replies"
HasFields(e) == "id" \in DOMAIN e

(***************************************************************************)
(* sorted(xs, key=lambda x: x["create_at"]): stable, ascending.            *)
(***************************************************************************)
InsertByCreateAt(s, p) ==
    LET k == Cardinality({i \in 1..Len(s) : s[i].create_at <= p.create_at})
    IN  SubSeq(s, 1, k) \o <<p>> \o SubSeq(s, k + 1, Len(s))

RECURSIVE SortPrefix(_, _)
SortPrefix(s, n) ==
    IF n = 0 THEN <<>> ELSE InsertByCreateAt(SortPrefix(s, n - 1), s[n])

\* the sort left out: the posts in post_dict's order
unsorted(s) == s

sorted_by_create_at(s) == SortPrefix(s, Len(s))

IsSortedByCreateAt(s) ==
    \A i \in 1..Len(s), j \in 1..Len(s) : i < j => s[i].create_at <= s[j].create_at

(***************************************************************************)
(* get_user: the cache, with the history of the requests it sends.         *)
(* c = [cache, requests, fetches, err]; st is the status the server        *)
(* answers with if it is asked.                                            *)
(***************************************************************************)
Bump(f, k) == [f EXCEPT ![k] = @ + 1]

\* the cache lookup left out: every call asks the server
get_user_uncached(c, user_id, st) ==
    IF st = 200
    THEN [cache    |-> (user_id :> UserRecord(user_id)) @@ c.cache,
          requests |-> Bump(c.requests, user_id),
          fetches  |-> Bump(c.fetches, user_id),
          err      |-> ""]
    ELSE [c EXCEPT !.requests = Bump(c.requests, user_id), !.err = "get_user"]

get_user(c, user_id, st) ==
    IF user_id \in DOMAIN c.cache THEN c
    ELSE IF st = 200
         THEN [cache    |-> (user_id :> UserRecord(user_id)) @@ c.cache,
               requests |-> Bump(c.requests, user_id),
               fetches  |-> Bump(c.fetches, user_id),
               err      |-> ""]
         ELSE [c EXCEPT !.requests = Bump(c.requests, user_id), !.err = "get_user"]

\* the status the server gives a user lookup, 200 where uo says nothing
StatusOf(uo, k) == IF k \in DOMAIN uo THEN uo[k] ELSE 200

\* get_user for each id of user_ids in turn, up to the first that raises
RECURSIVE get_users(_, _, _)
get_users(c, user_ids, uo) ==
    IF user_ids = <<>> \/ c.err # "" THEN c
    ELSE get_users(get_user(c, Head(user_ids), StatusOf(uo, Head(user_ids))),
                   Tail(user_ids), uo)

(***************************************************************************)
(* add_post.get_reactions: reaction_details is a defaultdict(list), keyed  *)
(* by emoji name in first-seen order.                                      *)
(***************************************************************************)
DetailKeys(d) == {d[i].emoji_name : i \in 1..Len(d)}

\* the grouping left out: one entry per reaction
DetailAppendEach(d, emoji, username) ==
    Append(d, [emoji_name |-> emoji, users |-> <<username>>])

\* reaction_details[emoji].append(username)
DetailAppend(d, emoji, username) ==
    IF emoji \in DetailKeys(d)
    THEN LET i == CHOOSE j \in 1..Len(d) : d[j].emoji_name = emoji
         IN  [d EXCEPT ![i].users = Append(@, username)]
    ELSE Append(d, [emoji_name |-> emoji, users |-> <<username>>])

RECURSIVE fold_reactions(_, _, _, _)
fold_reactions(c, details, reactions, uo) ==
    IF reactions = <<>> THEN [c |-> c, details |-> details]
    ELSE LET r  == Head(reactions)
             c2 == get_user(c, r.user_id, StatusOf(uo, r.user_id))
         IN  IF c2.err # "" THEN [c |-> c2, details |-> details]
             ELSE fold_reactions(c2,
                                 DetailAppend(details, r.emoji_name,
                                              c2.cache[r.user_id].username),
                                 Tail(reactions), uo)

\* the list get_reactions returns
Rollups(details) ==
    [i \in 1..Len(details) |->
        [emoji_name |-> details[i].emoji_name, users |-> details[i].users,
         count |-> Len(details[i].users)]]

\* st: the status of GET /posts/{id}/reactions; reactions: its body
get_reactions(c, st, reactions, uo) ==
    IF st # 200 THEN [c |-> [c EXCEPT !.err = "get_reactions"], reactions |-> <<>>]
    ELSE LET r == fold_reactions(c, <<>>, reactions, uo)
         IN  [c |-> r.c, reactions |-> Rollups(r.details)]

(***************************************************************************)
(* add_post.get_file_info and the comprehension over file_ids.             *)
(***************************************************************************)
\* the descriptor built from a 2xx answer
FileInfo(file_id) == [id |-> file_id, download_url |-> file_id]

\* the 404 branch left out: every error status raises
get_file_info_reraise(file_id, st) ==
    IF st = 200 THEN [raised |-> FALSE, info |-> <<FileInfo(file_id)>>]
    ELSE [raised |-> TRUE, info |-> <<>>]

\* info is <<descriptor>>, or <<>> for None (a 404, caught); any other error
\* status is raised again
get_file_info(file_id, st) ==
    IF st = 200 THEN [raised |-> FALSE, info |-> <<FileInfo(file_id)>>]
    ELSE IF st = 404 THEN [raised |-> FALSE, info |-> <<>>]
    ELSE [raised |-> TRUE, info |-> <<>>]

\* [files, err, log]: the lookups run in file_ids order and stop at the first
\* that raises; the comprehension drops None
RECURSIVE resolve_files(_, _, _)
resolve_files(file_ids, fo, acc) ==
    IF file_ids = <<>> THEN acc
    ELSE LET f    == Head(file_ids)
             r    == get_file_info(f, fo[f])
             log2 == Append(acc.log, [file_id |-> f, status |-> fo[f]])
         IN  IF r.raised THEN [acc EXCEPT !.err = "get_file_info", !.log = log2]
             ELSE resolve_files(Tail(file_ids), fo,
                                [acc EXCEPT !.files = @ \o r.info, !.log = log2])

get_files(file_ids, fo) == resolve_files(file_ids, fo, [files |-> <<>>, err |-> "", log |-> <<>>])

(***************************************************************************)
(* add_post: the placement of post_details in all_posts.                   *)
(***************************************************************************)
PostDetails(post, files, reactions) ==
    [id |-> post.id, user_id |-> post.user_id, create_at |-> post.create_at,
     delete_at |-> post.delete_at, root_id |-> post.root_id, files |-> files,
     reactions |-> reactions, replies |-> <<>>]

\* all_posts[id].update(post_details): every key of post_details is assigned
DictUpdate(entry, post_details) == post_details @@ entry

\* a reply put ahead of the replies already attached
place_post_prepend(t, post_details) ==
    IF post_details.root_id # ""
    THEN IF post_details.root_id \in TreeKeys(t)
         THEN [t EXCEPT ![TreeIndex(t, post_details.root_id)].val.replies =
                            <<post_details>> \o @]
         ELSE Append(t, [key |-> post_details.root_id,
                         val |-> [replies |-> <<post_details>>]])
    ELSE IF post_details.id \in TreeKeys(t)
         THEN [t EXCEPT ![TreeIndex(t, post_details.id)].val =
                            DictUpdate(@, post_details)]
         ELSE Append(t, [key |-> post_details.id, val |-> post_details])

place_post(t, post_details) ==
    IF post_details.root_id # ""
    THEN IF post_details.root_id \in TreeKeys(t)
         THEN [t EXCEPT ![TreeIndex(t, post_details.root_id)].val.replies =
                            Append(@, post_details)]
         ELSE Append(t, [key |-> post_details.root_id,
                         val |-> [replies |-> <<post_details>>]])
    ELSE IF post_details.id \in TreeKeys(t)
         THEN [t EXCEPT ![TreeIndex(t, post_details.id)].val =
                            DictUpdate(@, post_details)]
         ELSE Append(t, [key |-> post_details.id, val |-> post_details])

(***************************************************************************)
(* filter_posts_by_date.                                                   *)
(***************************************************************************)
\* int(datetime.strptime(d, "%Y-%m-%d").timestamp() * 1000) if d else None
to_timestamp(d) == IF d = NoDate THEN NoDate ELSE d * DayLen

\* Python truth of a bound: None and 0 are false
Truthy(ts) == ts # NoDate /\ ts # 0

Skipped(post_timestamp, start_timestamp, end_timestamp) ==
    \/ Truthy(start_timestamp) /\ post_timestamp < start_timestamp
    \/ Truthy(end_timestamp) /\ post_timestamp > end_timestamp

\* TRUE when post["create_at"] raises KeyError for some entry
FilterRaises(posts) == \E i \in 1..Len(posts) : "create_at" \notin DOMAIN posts[i]

filter_posts_by_date(posts, start_date, end_date) ==
    SelectSeq(posts, LAMBDA post :
        ~Skipped(post.create_at, to_timestamp(start_date), to_timestamp(end_date)))

(***************************************************************************)
(* The renderers.                                                          *)
(***************************************************************************)
\* first entry of posts without the fields the renderers read, 0 if none
FirstStub(posts) ==
    IF \E i \in 1..Len(posts) : ~HasFields(posts[i])
    THEN CHOOSE i \in 1..Len(posts) :
            ~HasFields(posts[i]) /\ \A j \in 1..(i - 1) : HasFields(posts[j])
    ELSE 0

\* the get_user calls of the rows, in row order: each post, then its replies
\* sorted by create_at
RECURSIVE RowUsers(_)
RowUsers(posts) ==
    IF posts = <<>> THEN <<>>
    ELSE LET p  == Head(posts)
             rs == sorted_by_create_at(p.replies)
         IN  <<p.user_id>> \o [i \in 1..Len(rs) |-> rs[i].user_id] \o RowUsers(Tail(posts))

\* the rows rendered before a KeyError stops the loop
RenderedPosts(posts) ==
    IF FirstStub(posts) = 0 THEN posts ELSE SubSeq(posts, 1, FirstStub(posts) - 1)

\* json.dump(posts): TRUE when some dumped object has the key "delete_at"
JsonHasDeleteAt(posts) ==
    \E i \in 1..Len(posts) : "delete_at" \in DOMAIN posts[i] \/ posts[i].replies # <<>>

NoFile == [written |-> FALSE, deleted_col |-> FALSE]

(***************************************************************************)
(* One run of main().                                                      *)
(***************************************************************************)
user_vars == <<user_cache, user_requests, user_fetches>>

sweep_vars == <<page, page_log, gp_all_posts, post_dict, bf, thread_log, sorted_posts>>

fold_vars == <<fi, all_posts, file_log>>

config_vars == <<FETCH_ALL, START_DATE, END_DATE>>

out_vars == <<posts_data, html, csv, json>>

\* the module-level state and the locals of main before its first call
RunInit ==
    /\ pc = "ping"
    /\ error = ""
    /\ is_system_admin = FALSE
    /\ user_cache = <<>>
    /\ user_requests = [u \in UserIds |-> 0]
    /\ user_fetches = [u \in UserIds |-> 0]
    /\ page = 0
    /\ page_log = <<>>
    /\ gp_all_posts = <<>>
    /\ post_dict = <<>>
    /\ bf = 1
    /\ thread_log = {}
    /\ sorted_posts = <<>>
    /\ fi = 1
    /\ all_posts = <<>>
    /\ file_log = <<>>
    /\ FETCH_ALL = FALSE
    /\ START_DATE = NoDate
    /\ END_DATE = NoDate
    /\ posts_data = <<>>
    /\ html = NoFile
    /\ csv = NoFile
    /\ json = NoFile

\* Retry(total=5, ...)
RetryTotal == 5

TransportIdle ==
    /\ attempts = 0
    /\ retry_total = RetryTotal
    /\ responses = <<>>
    /\ outcome = "idle"

\* The server: C's root, A's attachments and B's reactions are given, C is deleted.
Server(c_root, t, file_ids, reactions) ==
    /\ srv_posts = [id \in PostIds |->
                      RawPost(id,
                              IF id = "A" THEN "" ELSE IF id = "B" THEN "A" ELSE c_root,
                              t[id],
                              IF id = "A" THEN file_ids ELSE <<>>,
                              IF id = "C" THEN t[id] ELSE 0)]
    /\ srv_reactions = [id \in PostIds |-> IF id = "B" THEN reactions ELSE <<>>]

Reactions == [user_id : UserIds, emoji_name : Emojis]

\* A channel of three posts with any creation times, listed in any order; A has one
\* attachment, B one reaction.
Init ==
    /\ \E c_root \in RootIds, t \in [PostIds -> Times] :
          Server(c_root, t, <<"f1">>, <<[user_id |-> "u1", emoji_name |-> "+1"]>>)
    /\ listing \in DistinctSeqs(PostIds, Cardinality(PostIds))
    /\ srv_unknown_users = {}
    /\ RunInit
    /\ TransportIdle

\* creation times in id order
InOrder == [id \in PostIds |-> IF id = "A" THEN 1 ELSE IF id = "B" THEN 2 ELSE MaxTime]

\* the listings of the attachment and reaction runs: the whole channel on two pages,
\* a reply ahead of its root, a reply whose root was never listed
Listings == {<<"A", "B", "C">>, <<"B", "A">>, <<"B">>}

\* A carries any list of distinct file ids
InitFiles ==
    /\ \E file_ids \in DistinctSeqs(FileIds, MaxFiles) :
          Server("A", InOrder, file_ids, <<[user_id |-> "u1", emoji_name |-> "+1"]>>)
    /\ listing \in Listings
    /\ srv_unknown_users = {}
    /\ RunInit
    /\ TransportIdle

\* B carries any flat reaction list
InitReactions ==
    /\ \E reactions \in SeqsUpTo(Reactions, MaxReactions) :
          Server("A", InOrder, <<"f1">>, reactions)
    /\ listing \in Listings
    /\ srv_unknown_users = {}
    /\ RunInit
    /\ TransportIdle

\* what the server lists: deleted posts only with include_deleted
Visible(include_deleted) ==
    SelectSeq(listing, LAMBDA id : include_deleted \/ srv_posts[id].delete_at = 0)

\* a page is a JSON object keyed by post id: no id twice on one page of n
PagesKeyed(ids, n) ==
    \A i \in 1..Len(ids), j \in 1..Len(ids) :
       (i < j /\ (i - 1) \div n = (j - 1) \div n) => ids[i] # ids[j]

\* A channel whose pages may list a post again (posts arrive between two page
\* requests and shift the later pages), up to MaxListing posts over the pages.
InitSweep ==
    /\ Server("A", InOrder, <<"f1">>, <<[user_id |-> "u1", emoji_name |-> "+1"]>>)
    /\ listing \in SeqsUpTo(PostIds, MaxListing)
    /\ \A include_deleted \in BOOLEAN : PagesKeyed(Visible(include_deleted), per_page)
    /\ srv_unknown_users = {}
    /\ RunInit
    /\ TransportIdle

\* A channel some of whose authors the server no longer knows.
InitAuthors ==
    /\ \E c_root \in RootIds, t \in [PostIds -> Times] :
          Server(c_root, t, <<"f1">>, <<[user_id |-> "u1", emoji_name |-> "+1"]>>)
    /\ listing \in Listings
    /\ srv_unknown_users \in SUBSET UserIds
    /\ RunInit
    /\ TransportIdle

\* an exception reaches main's handlers: logged, and main returns
Fail(what) ==
    /\ pc' = "failed"
    /\ error' = what

Cache == [cache |-> user_cache, requests |-> user_requests, fetches |-> user_fetches,
          err |-> ""]

SetCache(c) ==
    /\ user_cache' = c.cache
    /\ user_requests' = c.requests
    /\ user_fetches' = c.fetches

get_server_version ==
    /\ pc = "ping"
    /\ \E st \in Statuses, has_version \in BOOLEAN :
          IF st # 200 THEN Fail("get_server_version")
          ELSE IF ~has_version THEN pc' = "exited" /\ error' = "exit"
          ELSE pc' = "principal" /\ error' = error
    /\ UNCHANGED <<is_system_admin, user_vars, sweep_vars, fold_vars, config_vars,
                   out_vars, srv_vars, transport_vars>>

check_system_admin ==
    /\ pc = "principal"
    /\ \E st \in Statuses, admin \in BOOLEAN :
          IF st # 200 THEN Fail("check_system_admin") /\ UNCHANGED is_system_admin
          ELSE pc' = "channel" /\ error' = error /\ is_system_admin' = admin
    /\ UNCHANGED <<user_vars, sweep_vars, fold_vars, config_vars, out_vars, srv_vars,
                   transport_vars>>

get_channel_name ==
    /\ pc = "channel"
    /\ \E st \in Statuses :
          IF st # 200 THEN Fail("get_channel_name")
          ELSE pc' = "pages" /\ error' = error
    /\ UNCHANGED <<is_system_admin, user_vars, sweep_vars, fold_vars, config_vars,
                   out_vars, srv_vars, transport_vars>>

\* the posts of page pg at page size n
PageOf(ids, pg, n) ==
    LET lo == pg * n + 1
        hi == IF (pg + 1) * n < Len(ids) THEN (pg + 1) * n ELSE Len(ids)
    IN  IF lo > hi THEN <<>> ELSE [i \in 1..(hi - lo + 1) |-> srv_posts[ids[lo + i - 1]]]

\* GET /channels/{id}/posts?page=&per_page= as sent, with the status and the posts
\* the call ended with
PageRequest(pg, n, st, posts) ==
    [page |-> pg, per_page |-> n, status |-> st,
     posts |-> IF st = 200 THEN posts ELSE <<>>]

\* the while loop without its short-page break: only an empty page ends the sweep
get_posts_page_until_empty ==
    /\ pc = "pages"
    /\ \E st \in Statuses :
          LET posts == PageOf(Visible(is_system_admin), page, per_page)
          IN  /\ page_log' = Append(page_log, PageRequest(page, per_page, st, posts))
              /\ IF st # 200
                 THEN Fail("get_posts") /\ UNCHANGED <<page, gp_all_posts, post_dict>>
                 ELSE IF posts = <<>>
                 THEN /\ pc' = "threads"
                      /\ UNCHANGED <<error, page, gp_all_posts, post_dict>>
                 ELSE /\ gp_all_posts' = gp_all_posts \o posts
                      /\ post_dict' = PostDictUpdate(post_dict, posts)
                      /\ pc' = pc
                      /\ page' = page + 1
                      /\ error' = error
    /\ UNCHANGED <<is_system_admin, user_vars, bf, thread_log, sorted_posts, fold_vars,
                   config_vars, out_vars, srv_vars, transport_vars>>

\* one turn of the while loop of get_posts
get_posts_page ==
    /\ pc = "pages"
    /\ \E st \in Statuses :
          LET posts == PageOf(Visible(is_system_admin), page, per_page)
          IN  /\ page_log' = Append(page_log, PageRequest(page, per_page, st, posts))
              /\ IF st # 200
                 THEN Fail("get_posts") /\ UNCHANGED <<page, gp_all_posts, post_dict>>
                 ELSE IF posts = <<>>
                 THEN /\ pc' = "threads"
                      /\ UNCHANGED <<error, page, gp_all_posts, post_dict>>
                 ELSE /\ gp_all_posts' = gp_all_posts \o posts
                      /\ post_dict' = PostDictUpdate(post_dict, posts)
                      /\ IF Len(posts) < per_page
                         THEN pc' = "threads" /\ page' = page
                         ELSE pc' = pc /\ page' = page + 1
                      /\ error' = error
    /\ UNCHANGED <<is_system_admin, user_vars, bf, thread_log, sorted_posts, fold_vars,
                   config_vars, out_vars, srv_vars, transport_vars>>

\* the bodies GET /posts/{root_id}/thread may answer with: posts of the thread, the
\* root among them or not, in any order
ThreadMembers(root_id) ==
    {id \in PostIds : id = root_id \/ srv_posts[id].root_id = root_id}

ThreadAnswers(root_id) ==
    LET ids == DistinctSeqs(ThreadMembers(root_id), Cardinality(ThreadMembers(root_id)))
    IN  {[i \in 1..Len(s) |-> srv_posts[s[i]]] : s \in ids}

NeedsThread(post) == post.root_id # "" /\ post.root_id \notin PostKeys(post_dict)

\* one turn of the thread loop that calls fetch_thread_posts
fetch_thread_posts ==
    /\ pc = "threads"
    /\ bf <= Len(gp_all_posts)
    /\ NeedsThread(gp_all_posts[bf])
    /\ LET root_id == gp_all_posts[bf].root_id
       IN  \E st \in Statuses, thread_posts \in ThreadAnswers(root_id) :
              IF st # 200
              THEN Fail("fetch_thread_posts") /\ UNCHANGED <<post_dict, bf, thread_log>>
              ELSE /\ post_dict' = PostDictUpdate(post_dict, thread_posts)
                   /\ thread_log' = thread_log \cup
                                       {[root_id |-> root_id, posts |-> thread_posts]}
                   /\ bf' = bf + 1
                   /\ UNCHANGED <<pc, error>>
    /\ UNCHANGED <<is_system_admin, user_vars, page, page_log, gp_all_posts, sorted_posts,
                   fold_vars, config_vars, out_vars, srv_vars, transport_vars>>

\* one turn of the thread loop for a root post or a reply whose root is known
get_posts_skip ==
    /\ pc = "threads"
    /\ bf <= Len(gp_all_posts)
    /\ ~NeedsThread(gp_all_posts[bf])
    /\ bf' = bf + 1
    /\ UNCHANGED <<pc, error, is_system_admin, user_vars, page, page_log, gp_all_posts,
                   post_dict, thread_log, sorted_posts, fold_vars, config_vars, out_vars, srv_vars,
                   transport_vars>>

\* the end of get_posts: the sort and the return
get_posts_return ==
    /\ pc = "threads"
    /\ bf > Len(gp_all_posts)
    /\ sorted_posts' = sorted_by_create_at(post_dict)
    /\ pc' = "fold"
    /\ UNCHANGED <<error, is_system_admin, user_vars, page, page_log, gp_all_posts,
                   post_dict, bf, thread_log, fold_vars, config_vars, out_vars, srv_vars,
                   transport_vars>>

\* the statuses GET /users/{id} may end with for each id of ids: 404 for a user the
\* server does not know, any status otherwise
UserStatuses(ids) ==
    {uo \in [ids -> Statuses] : \A u \in ids : u \in srv_unknown_users => uo[u] = 404}

\* the user ids of a reaction list
ReactionUsers(reactions) == {reactions[i].user_id : i \in 1..Len(reactions)}

\* add_post(all_posts, post) for the next post of posts_data
add_post ==
    /\ pc = "fold"
    /\ fi <= Len(sorted_posts)
    /\ LET post      == sorted_posts[fi]
           reactions == srv_reactions[post.id]
       IN  \E fo \in [Range(post.file_ids) -> Statuses], st \in Statuses,
              uo \in UserStatuses(ReactionUsers(reactions) \ DOMAIN user_cache) :
              LET fr == get_files(post.file_ids, fo)
                  rr == get_reactions(Cache, st, reactions, uo)
              IN  /\ file_log' = Append(file_log, [post_id |-> post.id,
                                                   file_ids |-> post.file_ids,
                                                   lookups |-> fr.log])
                  /\ IF fr.err # ""
                     THEN Fail(fr.err) /\ UNCHANGED <<user_vars, fi, all_posts>>
                     ELSE IF rr.c.err # ""
                     THEN Fail(rr.c.err) /\ SetCache(rr.c) /\ UNCHANGED <<fi, all_posts>>
                     ELSE /\ SetCache(rr.c)
                          /\ all_posts' = place_post(all_posts,
                                             PostDetails(post, fr.files, rr.reactions))
                          /\ fi' = fi + 1
                          /\ UNCHANGED <<pc, error>>
    /\ UNCHANGED <<is_system_admin, sweep_vars, config_vars, out_vars, srv_vars,
                   transport_vars>>

\* posts_data = list(all_posts.values()), then the date filter unless FETCH_ALL
main_filter ==
    /\ pc = "fold"
    /\ fi > Len(sorted_posts)
    /\ \E fa \in BOOLEAN, sd \in Dates \cup {NoDate}, ed \in Dates \cup {NoDate} :
          /\ fa => sd = NoDate /\ ed = NoDate
          /\ FETCH_ALL' = fa
          /\ START_DATE' = sd
          /\ END_DATE' = ed
          /\ LET values == TreeValues(all_posts)
             IN  IF fa
                 THEN posts_data' = values /\ pc' = "html" /\ error' = error
                 ELSE IF FilterRaises(values)
                 THEN posts_data' = values /\ Fail("KeyError")
                 ELSE /\ posts_data' = filter_posts_by_date(values, sd, ed)
                      /\ pc' = "html"
                      /\ error' = error
    /\ UNCHANGED <<is_system_admin, user_vars, sweep_vars, fold_vars, html, csv, json,
                   srv_vars, transport_vars>>

\* generate_html opening posts.html before it formats the rows, as generate_csv does
generate_html_open_first ==
    /\ pc = "html"
    /\ LET user_ids == RowUsers(RenderedPosts(posts_data))
       IN  \E uo \in UserStatuses(Range(user_ids) \ DOMAIN user_cache) :
              LET c == get_users(Cache, user_ids, uo)
              IN  /\ SetCache(c)
                  /\ html' = [written |-> TRUE, deleted_col |-> is_system_admin]
                  /\ IF c.err # "" THEN Fail(c.err)
                     ELSE IF FirstStub(posts_data) # 0 THEN Fail("KeyError")
                     ELSE pc' = "csv" /\ error' = error
    /\ UNCHANGED <<is_system_admin, sweep_vars, fold_vars, config_vars, posts_data, csv,
                   json, srv_vars, transport_vars>>

\* generate_html: the rows are formatted (get_user per row) before the file is opened
generate_html ==
    /\ pc = "html"
    /\ LET user_ids == RowUsers(RenderedPosts(posts_data))
       IN  \E uo \in UserStatuses(Range(user_ids) \ DOMAIN user_cache) :
              LET c == get_users(Cache, user_ids, uo)
              IN  /\ SetCache(c)
                  /\ IF c.err # "" THEN Fail(c.err) /\ UNCHANGED html
                     ELSE IF FirstStub(posts_data) # 0
                     THEN Fail("KeyError") /\ UNCHANGED html
                     ELSE /\ html' = [written |-> TRUE, deleted_col |-> is_system_admin]
                          /\ pc' = "csv"
                          /\ error' = error
    /\ UNCHANGED <<is_system_admin, sweep_vars, fold_vars, config_vars, posts_data, csv,
                   json, srv_vars, transport_vars>>

\* generate_csv: the file is opened and the header written, then each row is formatted
\* (get_user per row) and written
generate_csv ==
    /\ pc = "csv"
    /\ LET user_ids == RowUsers(RenderedPosts(posts_data))
       IN  \E uo \in UserStatuses(Range(user_ids) \ DOMAIN user_cache) :
              LET c == get_users(Cache, user_ids, uo)
              IN  /\ SetCache(c)
                  /\ csv' = [written |-> TRUE, deleted_col |-> is_system_admin]
                  /\ IF c.err # "" THEN Fail(c.err)
                     ELSE IF FirstStub(posts_data) # 0 THEN Fail("KeyError")
                     ELSE pc' = "json" /\ error' = error
    /\ UNCHANGED <<is_system_admin, sweep_vars, fold_vars, config_vars, posts_data, html,
                   json, srv_vars, transport_vars>>

generate_json ==
    /\ pc = "json"
    /\ json' = [written |-> TRUE, deleted_col |-> JsonHasDeleteAt(posts_data)]
    /\ pc' = "done"
    /\ UNCHANGED <<error, is_system_admin, user_vars, sweep_vars, fold_vars, config_vars,
                   posts_data, html, csv, srv_vars, transport_vars>>

Next ==
    \/ get_server_version
    \/ check_system_admin
    \/ get_channel_name
    \/ get_posts_page
    \/ fetch_thread_posts
    \/ get_posts_skip
    \/ get_posts_return
    \/ add_post
    \/ main_filter
    \/ generate_html
    \/ generate_csv
    \/ generate_json

Spec == Init /\ [][Next]_vars

SpecFiles == InitFiles /\ [][Next]_vars

SpecReactions == InitReactions /\ [][Next]_vars

SpecAuthors == InitAuthors /\ [][Next]_vars

\* get_posts is one thread of control and every page request it sends returns or
\* raises (the transport gives up after its retries), so a turn of the while loop
\* that can be taken is taken
SpecSweep == InitSweep /\ [][Next]_vars /\ WF_vars(get_posts_page)

(***************************************************************************)
(* The transport of every remote call: session.get through an HTTPAdapter  *)
(* with Retry(total=5, backoff_factor=1, status_forcelist=[429, 500, 502,  *)
(* 503, 504]), then raise_for_status.  A response is its status and        *)
(* whether it carries a Retry-After header.                                *)
(***************************************************************************)
status_forcelist == {429, 500, 502, 503, 504}

\* urllib3's Retry.RETRY_AFTER_STATUS_CODES (respect_retry_after_header defaults to True)
RETRY_AFTER_STATUS_CODES == {413, 429, 503}

HttpStatuses == {200, 403, 404, 413} \cup status_forcelist

HttpResponses ==
    {[status |-> st, retry_after |-> FALSE] : st \in HttpStatuses}
        \cup {[status |-> 413, retry_after |-> TRUE]}

\* the status list ignored: every error status is retried
is_retry_any_error(total, r) == r.status >= 400

\* Retry.is_retry for a GET
is_retry(total, r) ==
    \/ r.status \in status_forcelist
    \/ total # 0 /\ r.retry_after /\ r.status \in RETRY_AFTER_STATUS_CODES

\* Retry.increment then Retry.is_exhausted: total drops by one and is used up below 0
is_exhausted(total) == total - 1 < 0

\* response.raise_for_status()
raises_for_status(st) == st >= 400 /\ st < 600

InitTransport ==
    /\ Server("A", InOrder, <<>>, <<>>)
    /\ listing = <<>>
    /\ srv_unknown_users = {}
    /\ RunInit
    /\ attempts = 0
    /\ retry_total = RetryTotal
    /\ responses = <<>>
    /\ outcome = "pending"

\* one HTTP request of the call and what its response leads to
session_get ==
    /\ outcome = "pending"
    /\ \E r \in HttpResponses :
          /\ attempts' = attempts + 1
          /\ responses' = Append(responses, r)
          /\ IF is_retry(retry_total, r)
             THEN IF is_exhausted(retry_total)
                  THEN outcome' = "RetryError" /\ retry_total' = retry_total
                  ELSE outcome' = "pending" /\ retry_total' = retry_total - 1
             ELSE /\ retry_total' = retry_total
                  /\ outcome' = IF raises_for_status(r.status) THEN "HTTPError" ELSE "ok"
    /\ UNCHANGED <<run_vars, srv_vars>>

NextTransport == session_get

SpecTransport == InitTransport /\ [][NextTransport]_vars

(***************************************************************************)
(* Properties.                                                             *)
(***************************************************************************)
\* the add_post loop of main has run to its end
FoldDone ==
    \/ pc = "fold" /\ fi > Len(sorted_posts)
    \/ pc \in {"html", "csv", "json", "done"}

\* the entries of all_posts under key k
EntriesAt(k) == {i \in 1..Len(all_posts) : all_posts[i].key = k}

\* the same post: the fields add_post copies from the raw post
SamePost(post_details, post) ==
    /\ post_details.id = post.id
    /\ post_details.user_id = post.user_id
    /\ post_details.create_at = post.create_at
    /\ post_details.delete_at = post.delete_at
    /\ post_details.root_id = post.root_id

\* the entry under key k carries the fields of the raw post root
CarriesRoot(k, root) ==
    /\ k \in TreeKeys(all_posts)
    /\ HasFields(TreeGet(all_posts, k))
    /\ SamePost(TreeGet(all_posts, k), root)

\* the replies of the paged posts whose root no page returned
OrphanReplies ==
    {i \in 1..Len(gp_all_posts) :
        /\ gp_all_posts[i].root_id # ""
        /\ gp_all_posts[i].root_id \notin PostKeys(gp_all_posts)}

\* C1 (first half): once the thread loop is over, fetch_thread_posts was called for
\* the root of every paged reply whose root no page returned, and every post of every
\* answer is in post_dict under its own id.
ThreadsFetched ==
    (pc = "fold" \/ FoldDone) =>
        /\ \A i \in OrphanReplies :
              \E e \in thread_log : e.root_id = gp_all_posts[i].root_id
        /\ \A e \in thread_log : \A j \in 1..Len(e.posts) :
              /\ e.posts[j].id \in PostKeys(post_dict)
              /\ post_dict[PostIndex(post_dict, e.posts[j].id)] = e.posts[j]

\* C1: for every reply returned by the page sweep whose root is not among the paged
\* ids, the thread of the root was fetched and merged into post_dict, and when the
\* answer held the root, the tree folded from get_posts' output has an entry under
\* the root id that carries the root's fields and has that reply among its replies.
C1_OrphanReplyAttached ==
    /\ ThreadsFetched
    /\ FoldDone =>
          \A i \in OrphanReplies : \A e \in thread_log :
             LET reply == gp_all_posts[i]
             IN  (/\ e.root_id = reply.root_id
                  /\ \E j \in 1..Len(e.posts) : e.posts[j].id = reply.root_id)
                 => /\ CarriesRoot(reply.root_id, srv_posts[reply.root_id])
                    /\ \E k \in 1..Len(TreeGet(all_posts, reply.root_id).replies) :
                          TreeGet(all_posts, reply.root_id).replies[k].id = reply.id

\* the replies get_posts returned for root id k
RepliesTo(k) == {j \in 1..Len(sorted_posts) : sorted_posts[j].root_id = k}

\* C2: a root A and its only reply B with A.create_at < B.create_at, in whatever
\* order and on whatever pages the API returned them, fold into exactly one entry
\* under A's id, with A's fields and replies = [B].
C2_RootAndReply ==
    FoldDone =>
        \A i \in 1..Len(sorted_posts), j \in 1..Len(sorted_posts) :
           LET a == sorted_posts[i]
               b == sorted_posts[j]
           IN  (/\ a.root_id = ""
                /\ RepliesTo(a.id) = {j}
                /\ a.create_at < b.create_at)
               => /\ Cardinality(EntriesAt(a.id)) = 1
                  /\ CarriesRoot(a.id, a)
                  /\ Len(TreeGet(all_posts, a.id).replies) = 1
                  /\ SamePost(TreeGet(all_posts, a.id).replies[1], b)

\* C2's case: the reply B came on page 0 and its older root A on page 1, and B is
\* A's only reply
C2_Witness ==
    /\ FoldDone
    /\ page = 1
    /\ Len(gp_all_posts) = per_page + 1
    /\ gp_all_posts[1].id = "B"
    /\ gp_all_posts[per_page + 1].id = "A"
    /\ RepliesTo("A") = {PostIndex(sorted_posts, "B")}
    /\ srv_posts["A"].create_at < srv_posts["B"].create_at
    /\ Len(TreeGet(all_posts, "A").replies) = 1

\* C3: after the fold over a non-empty channel, the replies of every entry of the
\* tree are in non-decreasing create_at order.
C3_RepliesSorted ==
    (FoldDone /\ sorted_posts # <<>>) =>
        \A k \in 1..Len(all_posts) : IsSortedByCreateAt(all_posts[k].val.replies)

\* C3's case: two replies of different age under one root, collected newest first
C3_Witness ==
    /\ FoldDone
    /\ \E k \in 1..Len(all_posts) :
          /\ Len(all_posts[k].val.replies) = 2
          /\ all_posts[k].val.replies[1].create_at < all_posts[k].val.replies[2].create_at
    /\ \E i \in 1..Len(post_dict), j \in 1..Len(post_dict) :
          /\ i < j
          /\ post_dict[i].root_id # ""
          /\ post_dict[j].root_id # ""
          /\ post_dict[i].create_at > post_dict[j].create_at

\* the top-level posts of the tree
TopLevel == {i \in 1..Len(all_posts) : HasFields(all_posts[i].val)}

\* an entry of the tree is among the posts handed to the renderers
Retained(i) == \E k \in 1..Len(posts_data) : posts_data[k] = all_posts[i].val

\* first and last tick of a calendar day
DayFirst(d) == d * DayLen

DayLast(d) == (d + 1) * DayLen - 1

\* C4: with both bounds given, filter_posts_by_date retains a top-level post iff
\* its create_at lies between the first instant of the start date and the last
\* instant of the end date, both included.
C4_EndDateInclusive ==
    (/\ pc \in {"html", "csv", "json", "done"}
     /\ ~FETCH_ALL
     /\ START_DATE # NoDate
     /\ END_DATE # NoDate)
    => \A i \in TopLevel :
          Retained(i) <=> /\ DayFirst(START_DATE) <= all_posts[i].val.create_at
                          /\ all_posts[i].val.create_at <= DayLast(END_DATE)

\* every post_details the tree holds, top-level or reply
Stored ==
    {all_posts[i].val : i \in TopLevel}
        \cup UNION {Range(all_posts[i].val.replies) : i \in 1..Len(all_posts)}

NothingWritten == ~html.written /\ ~csv.written /\ ~json.written

AllWritten == html.written /\ csv.written /\ json.written

\* C5: add_post looks the file ids up in order; a 404 leaves that attachment out and
\* the remaining files are kept in file_ids order; any other error status ends the
\* lookups, aborts the run and no artifact is written.
C5_FileLookups ==
    \A k \in 1..Len(file_log) :
       LET e     == file_log[k]
           n     == Len(e.lookups)
           fatal == {i \in 1..n : e.lookups[i].status \notin {200, 404}}
           kept  == SelectSeq(e.lookups, LAMBDA l : l.status = 200)
       IN  /\ n <= Len(e.file_ids)
           /\ \A i \in 1..n : e.lookups[i].file_id = e.file_ids[i]
           /\ IF fatal = {}
              THEN /\ n = Len(e.file_ids)
                   /\ ~(k = Len(file_log) /\ error = "get_file_info")
                   /\ k < fi =>
                         \E pd \in Stored :
                            /\ pd.id = e.post_id
                            /\ pd.files = [i \in 1..Len(kept) |-> FileInfo(kept[i].file_id)]
              ELSE /\ fatal = {n}
                   /\ k = Len(file_log)
                   /\ pc = "failed"
                   /\ error = "get_file_info"
                   /\ NothingWritten

\* C5's case: the second of three files was answered 404 and the run went on to its end
C5_Witness ==
    /\ pc = "done"
    /\ \E k \in 1..Len(file_log) :
          /\ Len(file_log[k].lookups) = 3
          /\ file_log[k].lookups[1].status = 200
          /\ file_log[k].lookups[2].status = 404
          /\ file_log[k].lookups[3].status = 200

\* the emoji names of a flat reaction list
EmojiNames(reactions) == {reactions[i].emoji_name : i \in 1..Len(reactions)}

\* C6: the rollups of a post are one per distinct emoji name of its flat reaction
\* list, each with the usernames of that emoji's reactions in the order the API
\* returned them, and count = len(users).
C6_ReactionRollups ==
    \A pd \in Stored :
       LET flat == srv_reactions[pd.id]
       IN  /\ {pd.reactions[i].emoji_name : i \in 1..Len(pd.reactions)} = EmojiNames(flat)
           /\ Len(pd.reactions) = Cardinality(EmojiNames(flat))
           /\ \A i \in 1..Len(pd.reactions) :
                 LET mine == SelectSeq(flat,
                                LAMBDA r : r.emoji_name = pd.reactions[i].emoji_name)
                 IN  /\ pd.reactions[i].users =
                           [j \in 1..Len(mine) |-> Username(mine[j].user_id)]
                     /\ pd.reactions[i].count = Len(pd.reactions[i].users)

\* C6's case: three reactions, two users on one emoji and a second emoji
C6_Witness ==
    \E pd \in Stored :
       /\ Len(srv_reactions[pd.id]) = 3
       /\ Len(pd.reactions) = 2
       /\ \E i \in 1..2 : pd.reactions[i].users = <<"bob", "alice">>

\* C7: in a completed run each artifact has the deletion-status column or field
\* exactly when the principal is a system admin.
C7_DeletedColumnIffAdmin ==
    pc = "done" =>
        /\ html.deleted_col = is_system_admin
        /\ csv.deleted_col = is_system_admin
        /\ json.deleted_col = is_system_admin

\* C8: once a call of main has failed no artifact is written, and a run that has
\* ended has written all three artifacts or none.
C8_AllOrNothing ==
    /\ error # "" => NothingWritten
    /\ pc \in {"done", "failed", "exited"} => (AllWritten \/ NothingWritten)

\* C8's case: a user lookup failed while generate_html was formatting rows
C8_Witness ==
    /\ pc = "failed"
    /\ error = "get_user"
    /\ posts_data # <<>>

\* the call has ended
Ended == outcome \in {"ok", "HTTPError", "RetryError"}

Retried(r) ==
    \/ r.status \in {429, 500, 502, 503, 504}
    \/ r.status = 413 /\ r.retry_after

CacheSound ==
    \A u \in UserIds :
       /\ user_fetches[u] <= 1
       /\ u \in DOMAIN user_cache <=> user_fetches[u] = 1
       /\ u \in DOMAIN user_cache => user_cache[u] = UserRecord(u)
       /\ user_fetches[u] = 1 => user_requests[u] = 1

\* what a step may do to user_cache
CacheStep ==
    \A u \in UserIds :
       /\ u \in DOMAIN user_cache =>
             /\ u \in DOMAIN user_cache'
             /\ user_cache'[u] = user_cache[u]
             /\ user_requests'[u] = user_requests[u]
       /\ (u \notin DOMAIN user_cache /\ u \in DOMAIN user_cache') =>
             user_fetches'[u] = user_fetches[u] + 1
       /\ (user_requests'[u] > user_requests[u] /\ user_fetches'[u] = user_fetches[u]) =>
             u \notin DOMAIN user_cache'

\* C10: a user id is fetched successfully at most once in a run: a call for a cached
\* id sends no request, a successful miss stores the record, a failed fetch stores
\* nothing, and a stored entry is never changed or removed.
C10_UserCache == []CacheSound /\ [][CacheStep]_vars

\* C10's case: both users fetched, and u1 asked for again by the renderers after
\* get_reactions had cached it
C10_Witness ==
    /\ pc = "done"
    /\ Len(posts_data) > 0
    /\ \E pd \in Stored : pd.id = "B" /\ pd.reactions # <<>>
    /\ \A u \in UserIds : user_fetches[u] = 1

\* the step is add_post merging a root post into the placeholder under key k
MergesInto(k) ==
    /\ k \in TreeKeys(all_posts)
    /\ ~HasFields(TreeGet(all_posts, k))
    /\ k \in TreeKeys(all_posts')
    /\ HasFields(TreeGet(all_posts', k))

\* C11: when add_post processes a root post whose id keys a placeholder made by an
\* earlier reply, the entry it leaves carries the root's fields and still has every
\* reply that was attached before, in the same order.
C11_MergeKeepsReplies ==
    [][\A k \in PostIds :
          MergesInto(k) =>
             /\ SamePost(TreeGet(all_posts', k), sorted_posts[fi])
             /\ TreeGet(all_posts', k).replies = TreeGet(all_posts, k).replies]_vars

\* the page request answered with a full page, after which the loop goes on
FullPage(r) == r.status = 200 /\ Len(r.posts) = r.per_page

\* the entries of post_dict under post id k
DictEntries(k) == {i \in 1..Len(post_dict) : post_dict[i].id = k}

\* what the page requests of a run look like at any time
SweepSound ==
    /\ \A i \in 1..Len(page_log) :
          /\ page_log[i].page = i - 1
          /\ page_log[i].per_page = page_log[1].per_page
          /\ ~FullPage(page_log[i]) => (i = Len(page_log) /\ pc # "pages")
          /\ \A j \in 1..Len(page_log[i].posts) :
                Cardinality(DictEntries(page_log[i].posts[j].id)) = 1
    /\ pc = "pages" => page = Len(page_log)
    /\ pc \in {"threads", "fold", "html", "csv", "json", "done"} =>
          /\ page_log # <<>>
          /\ page_log[Len(page_log)].status = 200
          /\ ~FullPage(page_log[Len(page_log)])

\* C12: get_posts requests pages 0, 1, 2, ... in increasing order, each once and with
\* the same page size; a page that is empty or shorter than the page size is the last
\* one requested; every post of every fetched page is in post_dict exactly once per
\* post id; and the sweep of a finite channel comes to an end.
C12_PageSweep == []SweepSound /\ (pc = "pages" ~> pc # "pages")

\* C12's case: pages 0 and 1 were full and listed one post twice, page 2 was empty
\* and ended the sweep
C12_Witness ==
    /\ pc = "threads"
    /\ Len(page_log) = 3
    /\ page_log[3].posts = <<>>
    /\ \E j \in 1..per_page, k \in 1..per_page :
          page_log[1].posts[j].id = page_log[2].posts[k].id

\* get_posts has returned
Swept == pc \in {"fold", "html", "csv", "json", "done"} \/ sorted_posts # <<>>

\* the posts get_posts returned whose author the server answers 404 for
LostAuthors ==
    {i \in 1..Len(sorted_posts) : sorted_posts[i].user_id \in srv_unknown_users}

\* C13: when the lookup of the author of any post get_posts returned fails, be the
\* post a root or a reply and retained by the date filter or not, the run writes no
\* artifact and does not complete.
C13_LostAuthorAborts ==
    (Swept /\ LostAuthors # {}) =>
        /\ NothingWritten
        /\ pc # "done"

\* the entries of the tree that the fold left as replies-only placeholders
Stubs == {i \in 1..Len(all_posts) : ~HasFields(all_posts[i].val)}

\* C14: when the fold leaves a replies-only placeholder in the tree (the root never
\* came with the pages or the thread), the date filter and the renderers raise no
\* error over it, and a completed run has the placeholder with its replies among the
\* exported posts.
C14_StubExported ==
    (fi > Len(sorted_posts) /\ Stubs # {}) =>
        /\ error # "KeyError"
        /\ pc = "done" => \A i \in Stubs : Retained(i)

====
